---------------------------- MODULE Spec2Model ----------------------------
(***************************************************************************)
(* Model of server/data/convert-ward-csv-to-geojson.py: the WKT extractor  *)
(* parse_multipolygon_wkt and the driver convert_csv_to_geojson.            *)
(*                                                                         *)
(* Python strings are modelled as sequences of one-character strings, so   *)
(* that str.replace, re.findall, str.split, float() and the f-string are   *)
(* computed character by character, as the interpreter computes them.      *)
(* A Python float is modelled by its exact decimal value m * 10^e (m not   *)
(* divisible by 10) with a sign flag; binary rounding is not modelled.     *)
(***************************************************************************)
EXTENDS Integers, Sequences, FiniteSets, TLC

VARIABLES
    \* ---- parse_multipolygon_wkt, called on its own ----
    wkt_str,      \* the argument of the call
    polygons,     \* the returned list (<<>> before the return)
    ppc,          \* "idle" | "call" | "returned"
    \* ---- the local `coordinates` of line 46: the extractor result of the
    \*      row at hand in a run of the driver, or the value handed to the
    \*      geometry expression evaluated on its own ----
    coordinates,
    \* ---- the geometry expression of lines 56-59, evaluated on its own ----
    geometry,     \* the resulting "geometry" dict
    gpc,          \* "idle" | "eval" | "built"
    \* ---- convert_csv_to_geojson ----
    pc,           \* "idle" | "start" | "loop" | "dump" | "done" | "aborted"
    header,       \* the column names of the CSV header line
    rows,         \* the rows the reader has yielded so far, in file order
    features,     \* the list `features`
    printed,      \* what print() has written to the console, in order
    csvfile,      \* "unopened" | "open" | "closed"
    exhausted,    \* TRUE once the reader has raised StopIteration
    outOpens,     \* how many times the output path has been opened for writing
    outfile,      \* the content of the output path
    raised        \* the exception that left the function, NoError if none

parseVars == <<wkt_str, polygons, ppc>>
geomVars  == <<coordinates, geometry, gpc>>
convVars  == <<pc, header, rows, features, printed, csvfile, exhausted,
               outOpens, outfile, raised>>
vars      == <<wkt_str, polygons, ppc, coordinates, geometry, gpc,
               pc, header, rows, features, printed, csvfile, exhausted,
               outOpens, outfile, raised>>

(***************************************************************************)
(* Bounds of the model.                                                    *)
(***************************************************************************)
\* most coordinate-pair items in a generated WKT string
MaxCoords == 3
\* most rows the CSV reader yields in one run
MaxRows == 3
\* most polygons in an extractor result handed to the geometry expression
MaxPolys == 2

(***************************************************************************)
(* Characters and string literals.                                         *)
(***************************************************************************)
Digit == {"0", "1", "2", "3", "4", "5", "6", "7", "8", "9"}

DigitVal(c) ==
    CASE c = "0" -> 0 [] c = "1" -> 1 [] c = "2" -> 2 [] c = "3" -> 3
      [] c = "4" -> 4 [] c = "5" -> 5 [] c = "6" -> 6 [] c = "7" -> 7
      [] c = "8" -> 8 [] c = "9" -> 9

\* the literal 'MULTIPOLYGON (((' of line 10
PREFIX == <<"M", "U", "L", "T", "I", "P", "O", "L", "Y", "G", "O", "N",
            " ", "(", "(", "(">>
\* the literal ')))' of line 10
SUFFIX == <<")", ")", ")">>

\* Python's None, where a string is expected (a short row's missing field)
None == <<"<None>">>

(***************************************************************************)
(* str.replace(old, ''): every non-overlapping occurrence of old, found    *)
(* left to right, is removed; the result is not rescanned.                 *)
(***************************************************************************)
StartsAt(s, i, old) ==
    /\ i + Len(old) - 1 <= Len(s)
    /\ \A k \in 1..Len(old) : s[i + k - 1] = old[k]

RECURSIVE RemoveFrom(_, _, _)
RemoveFrom(s, i, old) ==
    IF i > Len(s) THEN <<>>
    ELSE IF StartsAt(s, i, old) THEN RemoveFrom(s, i + Len(old), old)
    ELSE <<s[i]>> \o RemoveFrom(s, i + 1, old)

Remove(s, old) == RemoveFrom(s, 1, old)

\* line 10
StripMarkers(s) == Remove(Remove(s, PREFIX), SUFFIX)

(***************************************************************************)
(* re.findall(r'-?\d+\.\d+ -?\d+\.\d+', s): leftmost, greedy,              *)
(* non-overlapping matches in textual order.  Every quantifier of the      *)
(* pattern is followed by a character outside its class, so the greedy     *)
(* choice is the only one that can succeed and no backtracking is lost.    *)
(***************************************************************************)
\* the index just past the longest run of digits that starts at i
RECURSIVE DigitsEnd(_, _)
DigitsEnd(s, i) ==
    IF i <= Len(s) /\ s[i] \in Digit THEN DigitsEnd(s, i + 1) ELSE i

\* -?\d+\.\d+ at i: the index just past the match, or 0 when there is none
NumberEnd(s, i) ==
    LET a == IF i <= Len(s) /\ s[i] = "-" THEN i + 1 ELSE i
        b == DigitsEnd(s, a)
        c == DigitsEnd(s, b + 1)
    IN  IF b > a /\ b <= Len(s) /\ s[b] = "." /\ c > b + 1 THEN c ELSE 0

\* the whole pattern at i: the index just past the match, or 0
PairEnd(s, i) ==
    LET a == NumberEnd(s, i)
    IN  IF a # 0 /\ a <= Len(s) /\ s[a] = " " THEN NumberEnd(s, a + 1) ELSE 0

RECURSIVE FindAllFrom(_, _)
FindAllFrom(s, i) ==
    IF i > Len(s) THEN <<>>
    ELSE LET e == PairEnd(s, i)
         IN  IF e # 0 THEN <<SubSeq(s, i, e - 1)>> \o FindAllFrom(s, e)
             ELSE FindAllFrom(s, i + 1)

\* line 17
FindAll(s) == FindAllFrom(s, 1)


(***************************************************************************)
(* float(s).  The text is stripped of surrounding whitespace, then read as *)
(* [sign] (digits [. [digits]] | . digits) [(e|E) [sign] digits], or as    *)
(* [sign] inf | infinity | nan.  Anything else raises ValueError, and None *)
(* raises TypeError.  (Python also accepts upper-case spellings of the     *)
(* names and single underscores between digits; the inputs of the model    *)
(* contain neither.)                                                       *)
(***************************************************************************)
Whitespace == {" "}

RECURSIVE LStrip(_)
LStrip(s) ==
    IF s # <<>> /\ Head(s) \in Whitespace THEN LStrip(Tail(s)) ELSE s

RECURSIVE RStrip(_)
RStrip(s) ==
    IF s # <<>> /\ s[Len(s)] \in Whitespace
    THEN RStrip(SubSeq(s, 1, Len(s) - 1)) ELSE s

Strip(s) == LStrip(RStrip(s))

\* the value of a run of decimal digits
RECURSIVE DigitsVal(_)
DigitsVal(ds) ==
    IF ds = <<>> THEN 0
    ELSE 10 * DigitsVal(SubSeq(ds, 1, Len(ds) - 1)) + DigitVal(ds[Len(ds)])

\* m * 10^e with the trailing zeros of m moved into e; zero is 0 * 10^0
RECURSIVE Normal(_, _, _)
Normal(neg, m, e) ==
    IF m = 0 THEN [kind |-> "num", neg |-> neg, m |-> 0, e |-> 0]
    ELSE IF m % 10 = 0 THEN Normal(neg, m \div 10, e + 1)
    ELSE [kind |-> "num", neg |-> neg, m |-> m, e |-> e]

\* exceptions, as values
NoError        == [kind |-> "none"]
ValueError(s)  == [kind |-> "ValueError", arg |-> s]
TypeError      == [kind |-> "TypeError"]
KeyError(k)    == [kind |-> "KeyError", arg |-> <<k>>]
AttributeError == [kind |-> "AttributeError"]
\* from open() and from the reader, named by the file concerned
OSError(f)     == [kind |-> "OSError", arg |-> <<f>>]
ReadError      == [kind |-> "ReadError"]

IsError(v) == v.kind \in {"ValueError", "TypeError", "KeyError", "AttributeError"}

INF      == <<"i", "n", "f">>
INFINITY == <<"i", "n", "f", "i", "n", "i", "t", "y">>
NAN      == <<"n", "a", "n">>

PyFloat(s) ==
    IF s = None THEN TypeError
    ELSE
    LET t    == Strip(s)
        sgn  == t # <<>> /\ t[1] \in {"+", "-"}
        neg  == t # <<>> /\ t[1] = "-"
        u    == IF sgn THEN Tail(t) ELSE t
        \* integer digits are u[1 .. ie-1]
        ie   == DigitsEnd(u, 1)
        dot  == ie <= Len(u) /\ u[ie] = "."
        fs   == IF dot THEN ie + 1 ELSE ie
        \* fraction digits are u[fs .. fe-1]
        fe   == DigitsEnd(u, fs)
        ip   == SubSeq(u, 1, ie - 1)
        fp   == SubSeq(u, fs, fe - 1)
        hasE == fe <= Len(u) /\ u[fe] \in {"e", "E"}
        xs   == IF fe + 1 <= Len(u) /\ u[fe + 1] \in {"+", "-"}
                THEN fe + 2 ELSE fe + 1
        xneg == fe + 1 <= Len(u) /\ u[fe + 1] = "-"
        \* exponent digits are u[xs .. xe-1]
        xe   == DigitsEnd(u, xs)
        xv   == DigitsVal(SubSeq(u, xs, xe - 1))
        ex   == IF hasE THEN (IF xneg THEN 0 - xv ELSE xv) ELSE 0
        last == IF hasE THEN xe ELSE fe
        ok   == /\ Len(ip) + Len(fp) > 0
                /\ hasE => xe > xs
                /\ last = Len(u) + 1
    IN  IF u \in {INF, INFINITY} THEN [kind |-> "inf", neg |-> neg]
        ELSE IF u = NAN THEN [kind |-> "nan", neg |-> neg]
        ELSE IF ok THEN Normal(neg, DigitsVal(ip \o fp), ex - Len(fp))
        ELSE ValueError(s)

\* == on floats: a NaN equals nothing, the two zeros are equal
FloatEq(a, b) ==
    /\ a.kind # "nan" /\ b.kind # "nan"
    /\ \/ a = b
       \/ a.kind = "num" /\ b.kind = "num" /\ a.m = 0 /\ b.m = 0

(***************************************************************************)
(* str.split(): the maximal runs of non-whitespace characters.             *)
(***************************************************************************)
RECURSIVE WordEnd(_, _)
WordEnd(s, i) ==
    IF i <= Len(s) /\ s[i] \notin Whitespace THEN WordEnd(s, i + 1) ELSE i

RECURSIVE SplitFrom(_, _)
SplitFrom(s, i) ==
    IF i > Len(s) THEN <<>>
    ELSE IF s[i] \in Whitespace THEN SplitFrom(s, i + 1)
    ELSE <<SubSeq(s, i, WordEnd(s, i) - 1)>> \o SplitFrom(s, WordEnd(s, i))

Split(s) == SplitFrom(s, 1)

(***************************************************************************)
(* parse_multipolygon_wkt (lines 7-31).                                    *)
(***************************************************************************)
\* lines 22-23: lng, lat = map(float, match.split()); [lng, lat]
ToCoord(match) ==
    LET parts == Split(match) IN <<PyFloat(parts[1]), PyFloat(parts[2])>>

\* == on two [lng, lat] lists
CoordEq(a, b) == FloatEq(a[1], b[1]) /\ FloatEq(a[2], b[2])

\* ConvertMatches filling the list from the last match to the first
ConvertMatchesReversed(matches) ==
    [i \in 1..Len(matches) |-> ToCoord(matches[Len(matches) + 1 - i])]

\* lines 20-23
ConvertMatches(matches) == [i \in 1..Len(matches) |-> ToCoord(matches[i])]

\* CloseRing without its append: the ring is returned as matched
CloseRingNever(polygon_coords) == polygon_coords

\* CloseRing without its test: the first coordinate is always appended
CloseRingAlways(polygon_coords) == Append(polygon_coords, polygon_coords[1])

\* lines 25-27
CloseRing(polygon_coords) ==
    IF polygon_coords # <<>>
       /\ ~CoordEq(polygon_coords[1], polygon_coords[Len(polygon_coords)])
    THEN Append(polygon_coords, polygon_coords[1])
    ELSE polygon_coords

\* the extractor with the split its comment announces: a polygon per pair
parse_polygon_per_pair(s) ==
    LET matches == FindAll(StripMarkers(s))
    IN  [i \in 1..Len(matches) |-> << CloseRing(<<ToCoord(matches[i])>>) >>]

parse_multipolygon_wkt(s) ==
    LET coords_str == StripMarkers(s)
        matches    == FindAll(coords_str)
    IN  IF matches # <<>>
        THEN << <<CloseRing(ConvertMatches(matches))>> >>
        ELSE <<>>

(***************************************************************************)
(* The strings the extractor is called on: an optional prefix literal, up  *)
(* to MaxCoords coordinate items joined by separators, an optional suffix  *)
(* literal.                                                                *)
(***************************************************************************)
WktItems ==
    { <<"1", ".", "0", " ", "2", ".", "0">>,             \* 1.0 2.0
      <<"3", ".", "5", " ", "-", "4", ".", "0">>,        \* 3.5 -4.0
      <<"-", "0", ".", "0", " ", "2", ".", "0">>,        \* -0.0 2.0
      <<"0", ".", "0", "0", " ", "2", ".", "0">> }       \* 0.00 2.0

WktSeps ==
    { <<",", " ">>,                                      \* next coordinate
      <<")", ")", ",", " ", "(", "(">>,                  \* next polygon group
      <<")", ")", ")">> }                                \* a stray suffix literal

RECURSIVE WktBodies(_)
WktBodies(n) ==
    IF n = 0 THEN {<<>>}
    ELSE IF n = 1 THEN WktItems
    ELSE {b \o sep \o it : b \in WktBodies(n - 1), sep \in WktSeps, it \in WktItems}

WktInputs ==
    {p \o b \o q : p \in {<<>>, PREFIX},
                   b \in UNION {WktBodies(n) : n \in 0..MaxCoords},
                   q \in {<<>>, SUFFIX}}

(***************************************************************************)
(* The extractor called on its own.                                        *)
(***************************************************************************)
ParseCall ==
    /\ ppc = "call"
    /\ polygons' = parse_multipolygon_wkt(wkt_str)
    /\ ppc' = "returned"
    /\ UNCHANGED <<wkt_str, geomVars, convVars>>

(***************************************************************************)
(* The "geometry" dict of lines 56-59.                                     *)
(***************************************************************************)
\* GeometryType with `!= 1` for `> 1`
GeometryTypeNotOne(coords) == IF Len(coords) # 1 THEN "MultiPolygon" ELSE "Polygon"

\* line 57
GeometryType(coords) == IF Len(coords) > 1 THEN "MultiPolygon" ELSE "Polygon"

\* GeometryCoordinates without its first branch: a single polygon is assumed
GeometryCoordinatesFirst(coords) == IF coords # <<>> THEN coords[1] ELSE <<>>

\* line 58
GeometryCoordinates(coords) ==
    IF Len(coords) > 1 THEN coords
    ELSE IF coords # <<>> THEN coords[1]
    ELSE <<>>

Geometry(coords) ==
    [type |-> GeometryType(coords), coordinates |-> GeometryCoordinates(coords)]

\* Extractor-shaped values (sequences of polygons, each a sequence of rings)
\* handed to the expression on its own.
RingSamples ==
    { << <<Normal(FALSE, 1, 0), Normal(FALSE, 2, 0)>> >>,
      << <<Normal(FALSE, 1, 0), Normal(FALSE, 2, 0)>>,
         <<Normal(FALSE, 35, -1), Normal(TRUE, 4, 0)>>,
         <<Normal(FALSE, 1, 0), Normal(FALSE, 2, 0)>> >>,
      << <<Normal(TRUE, 0, 0), Normal(FALSE, 2, 0)>>,
         <<Normal(FALSE, 0, 0), Normal(FALSE, 2, 0)>> >> }

PolygonSamples ==
    {<<r>> : r \in RingSamples} \cup {<<r, h>> : r \in RingSamples, h \in RingSamples}

RECURSIVE PolygonLists(_)
PolygonLists(n) ==
    IF n = 0 THEN {<<>>}
    ELSE {Append(l, q) : l \in PolygonLists(n - 1), q \in PolygonSamples}

CoordinateSamples == UNION {PolygonLists(n) : n \in 0..MaxPolys}

GeometryEval ==
    /\ gpc = "eval"
    /\ geometry' = Geometry(coordinates)
    /\ gpc' = "built"
    /\ UNCHANGED <<coordinates, parseVars, convVars>>

(***************************************************************************)
(* convert_csv_to_geojson (lines 33-78).                                   *)
(***************************************************************************)
Columns == {"WARD", "the_geom", "SHAPE_Area", "SHAPE_Leng"}

\* The header lines of the modelled files: every column, or one missing.
Headers == {Columns} \cup {Columns \ {c} : c \in Columns}

\* WARD values
W1  == <<"1">>
W27 == <<"2", "7">>

\* the_geom values
GeomEmpty   == <<>>                                               \* (empty field)
GeomNoPairs == <<"3", " ", "4">>                                  \* 3 4
GeomBare    == <<"1", ".", "0", " ", "2", ".", "0", ",", " ",
                 "3", ".", "5", " ", "-", "4", ".", "0">>         \* 1.0 2.0, 3.5 -4.0
GeomRing    ==                  \* MULTIPOLYGON (((1.0 2.0, 3.5 -4.0, 1.0 2.0)))
    PREFIX \o <<"1", ".", "0", " ", "2", ".", "0", ",", " ",
                "3", ".", "5", " ", "-", "4", ".", "0", ",", " ",
                "1", ".", "0", " ", "2", ".", "0">> \o SUFFIX
GeomMulti   ==         \* MULTIPOLYGON (((1.0 2.0), (0.5 0.5)), ((3.5 -4.0)))
    PREFIX \o <<"1", ".", "0", " ", "2", ".", "0", ")", ",", " ", "(",
                "0", ".", "5", " ", "0", ".", "5", ")", ")", ",", " ", "(", "(",
                "3", ".", "5", " ", "-", "4", ".", "0">> \o SUFFIX

\* <<SHAPE_Area, SHAPE_Leng>> values
NumsOk      == << <<"1", "0", "0", ".", "5">>, <<"1", "e", "3">> >>     \* 100.5, 1e3
NumsBadArea == << <<"a", "b", "c">>, <<"5", "0", ".", "2", "5">> >>     \* abc, 50.25
NumsBadLeng == << <<"1", "0", "0", ".", "5">>, <<>> >>                  \* 100.5, (empty)

\* The rows of the modelled files, as <<WARD, the_geom, <<SHAPE_Area, SHAPE_Leng>>>>.
\* A field is None in a row that is shorter than the header.
RowValues ==
    { <<W1,  GeomRing,    NumsOk>>,
      <<W27, GeomMulti,   NumsOk>>,
      <<W1,  GeomEmpty,   NumsOk>>,
      <<W27, GeomNoPairs, NumsOk>>,
      <<W1,  GeomBare,    NumsOk>>,
      <<W27, GeomRing,    NumsBadArea>>,
      <<W1,  GeomMulti,   NumsBadLeng>>,
      <<W27, None,        NumsOk>> }

\* A column the header lacks has no value in any row.
Field(h, c, v) == IF c \in h THEN v ELSE None

RowSamples(h) ==
    {[WARD       |-> Field(h, "WARD", v[1]),
      the_geom   |-> Field(h, "the_geom", v[2]),
      SHAPE_Area |-> Field(h, "SHAPE_Area", v[3][1]),
      SHAPE_Leng |-> Field(h, "SHAPE_Leng", v[3][2])] : v \in RowValues}

\* f"Ward {ward_num}" (line 52)
WardName(ward_num) == <<"W", "a", "r", "d", " ">> \o ward_num

\* TryError without line 54: SHAPE_Leng is not converted
TryErrorAreaOnly(h, row) ==
    IF row.the_geom = None THEN AttributeError
    ELSE IF "SHAPE_Area" \notin h THEN KeyError("SHAPE_Area")
    ELSE IF IsError(PyFloat(row.SHAPE_Area)) THEN PyFloat(row.SHAPE_Area)
    ELSE NoError

\* The first exception the try block of lines 44-62 raises on a row, in
\* evaluation order, or NoError.
TryError(h, row) ==
    IF row.the_geom = None THEN AttributeError                   \* line 10
    ELSE IF "SHAPE_Area" \notin h THEN KeyError("SHAPE_Area")    \* line 53
    ELSE IF IsError(PyFloat(row.SHAPE_Area)) THEN PyFloat(row.SHAPE_Area)
    ELSE IF "SHAPE_Leng" \notin h THEN KeyError("SHAPE_Leng")    \* line 54
    ELSE IF IsError(PyFloat(row.SHAPE_Leng)) THEN PyFloat(row.SHAPE_Leng)
    ELSE NoError

\* lines 48-60
Feature(row, coords) ==
    [type       |-> "Feature",
     properties |-> [ward       |-> row.WARD,
                     ward_name  |-> WardName(row.WARD),
                     shape_area |-> PyFloat(row.SHAPE_Area),
                     shape_len  |-> PyFloat(row.SHAPE_Leng)],
     geometry   |-> Geometry(coords)]

\* line 65
ErrorLine(row, e) == [line |-> "Error processing ward", ward |-> row.WARD, error |-> e]

\* line 77
SummaryLine(n) == [line |-> "Converted", count |-> n]

\* lines 68-71
GeoJson(fs) == [type |-> "FeatureCollection", features |-> fs]

\* what the output path holds before the run
PreviousContent == [type |-> "<previous content>"]

\* line 37: open(..., 'r') succeeds
OpenInput ==
    /\ pc = "start"
    /\ csvfile' = "open"
    /\ pc' = "loop"
    /\ UNCHANGED <<header, rows, features, printed, exhausted, outOpens, outfile,
                   raised, parseVars, geomVars>>

\* line 37: open(..., 'r') raises; nothing catches it
OpenInputFails ==
    /\ pc = "start"
    /\ raised' = OSError("input")
    /\ pc' = "aborted"
    /\ UNCHANGED <<header, rows, features, printed, csvfile, exhausted, outOpens,
                   outfile, parseVars, geomVars>>

\* lines 41-42, which are outside the try block: the KeyError of the first
\* lookup that fails, or NoError
LookupError(h) ==
    IF "WARD" \notin h THEN KeyError("WARD")
    ELSE IF "the_geom" \notin h THEN KeyError("the_geom")
    ELSE NoError

\* `except ValueError` for `except Exception`
CaughtValueErrorOnly(e) == e.kind = "ValueError"

\* line 64: `except Exception` catches every exception of the try block
Caught(e) == TRUE

\* features.insert(0, feature) for features.append(feature)
PrependFeature(fs, f) == <<f>> \o fs

\* line 62
AppendFeature(fs, f) == Append(fs, f)

\* lines 40-66: the reader yields the next row and the loop body runs on it
ProcessRow(row) ==
    /\ pc = "loop"
    /\ Len(rows) < MaxRows
    /\ rows' = Append(rows, row)
    /\ LET e0 == LookupError(header)
           e  == TryError(header, row)
       IN  IF e0 # NoError
           THEN /\ raised' = e0
                /\ csvfile' = "closed"
                /\ pc' = "aborted"
                /\ UNCHANGED <<features, printed, coordinates>>
           ELSE
           \* line 46 is the first statement of the try block
           /\ coordinates' = IF row.the_geom = None THEN coordinates
                             ELSE parse_multipolygon_wkt(row.the_geom)
           /\ IF e = NoError
              THEN /\ features' = AppendFeature(features, Feature(row, coordinates'))
                   /\ UNCHANGED <<printed, raised, csvfile, pc>>
              ELSE IF Caught(e)
              THEN /\ printed' = Append(printed, ErrorLine(row, e))
                   /\ UNCHANGED <<features, raised, csvfile, pc>>
              ELSE /\ raised' = e
                   /\ csvfile' = "closed"
                   /\ pc' = "aborted"
                   /\ UNCHANGED <<features, printed>>
    /\ UNCHANGED <<header, exhausted, outOpens, outfile, parseVars, geometry, gpc>>

\* line 40: reading the next row raises (csv.Error, a decoding or I/O error);
\* the with block of line 37 closes the file
ReadRowFails ==
    /\ pc = "loop"
    /\ raised' = ReadError
    /\ csvfile' = "closed"
    /\ pc' = "aborted"
    /\ UNCHANGED <<header, rows, features, printed, exhausted, outOpens, outfile,
                   parseVars, geomVars>>

\* line 40: the reader is exhausted; the with block of line 37 closes the file
EndOfRows ==
    /\ pc = "loop"
    /\ exhausted' = TRUE
    /\ csvfile' = "closed"
    /\ pc' = "dump"
    /\ UNCHANGED <<header, rows, features, printed, outOpens, outfile, raised,
                   parseVars, geomVars>>

\* lines 68-75 indented into the loop body: the output is written per row
AtDumpOrLoop == pc \in {"loop", "dump"}

\* the program point at which line 74 opens the output path
AtDump == pc = "dump"

\* lines 68-78: open(..., 'w'), json.dump, print, return
DumpOutput ==
    /\ AtDump
    /\ outOpens' = outOpens + 1
    /\ outfile' = GeoJson(features)
    /\ printed' = Append(printed, SummaryLine(Len(features)))
    /\ pc' = "done"
    /\ UNCHANGED <<header, rows, features, csvfile, exhausted, raised,
                   parseVars, geomVars>>

\* line 74: open(..., 'w') raises; nothing catches it
OpenOutputFails ==
    /\ AtDump
    /\ raised' = OSError("output")
    /\ pc' = "aborted"
    /\ UNCHANGED <<header, rows, features, printed, csvfile, exhausted, outOpens,
                   outfile, parseVars, geomVars>>

(***************************************************************************)
(* Specifications.                                                         *)
(***************************************************************************)
ParseIdle == wkt_str = <<>> /\ polygons = <<>> /\ ppc = "idle"
GeomIdle  == coordinates = <<>> /\ geometry = Geometry(<<>>) /\ gpc = "idle"
ConvIdle  ==
    /\ pc = "idle" /\ header = Columns /\ rows = <<>> /\ features = <<>>
    /\ printed = <<>> /\ csvfile = "unopened" /\ exhausted = FALSE
    /\ outOpens = 0 /\ outfile = PreviousContent /\ raised = NoError

\* a run of the program on some CSV file
Init ==
    /\ ParseIdle /\ GeomIdle
    /\ pc = "start"
    /\ header \in Headers
    /\ rows = <<>>
    /\ features = <<>>
    /\ printed = <<>>
    /\ csvfile = "unopened"
    /\ exhausted = FALSE
    /\ outOpens = 0
    /\ outfile = PreviousContent
    /\ raised = NoError

Next ==
    \/ OpenInput
    \/ OpenInputFails
    \/ \E row \in RowSamples(header) : ProcessRow(row)
    \/ ReadRowFails
    \/ EndOfRows
    \/ DumpOutput
    \/ OpenOutputFails

Spec == Init /\ [][Next]_vars

\* a call of the extractor on some string
InitParse ==
    /\ wkt_str \in WktInputs
    /\ polygons = <<>>
    /\ ppc = "call"
    /\ GeomIdle /\ ConvIdle

NextParse == ParseCall

SpecParse == InitParse /\ [][NextParse]_vars

\* an evaluation of the geometry expression on some extractor-shaped value
InitGeom ==
    /\ coordinates \in CoordinateSamples
    /\ geometry = Geometry(<<>>)
    /\ gpc = "eval"
    /\ ParseIdle /\ ConvIdle

NextGeom == GeometryEval

SpecGeom == InitGeom /\ [][NextGeom]_vars

(***************************************************************************)
(* Properties of the extractor (checked under SpecParse).                  *)
(***************************************************************************)
\* the matches line 17 finds for the call's argument
Matches == FindAll(StripMarkers(wkt_str))

\* the ring of the returned value
Ring == polygons[1][1]

\* C1: whenever the extractor finds at least one coordinate pair, the single
\* ring it returns is closed: its first coordinate equals (==) its last,
\* also when exactly one pair is found.
C1_RingClosed ==
    ppc = "returned" =>
        LET ms == Matches
        IN  ms # <<>> =>
                /\ Len(polygons) = 1 /\ Len(polygons[1]) = 1
                /\ Ring # <<>>
                /\ CoordEq(Ring[1], Ring[Len(Ring)])

\* C1 witness: a call that found several pairs, the first differing from the
\* last, has returned.
C1_Witness ==
    /\ ppc = "returned"
    /\ LET ms == Matches
       IN  Len(ms) >= 2 /\ ~CoordEq(ToCoord(ms[1]), ToCoord(ms[Len(ms)]))

\* C2: with n pairs matched, if the first pair equals (==) the last the ring is
\* the matched sequence itself, of length n; if they differ the ring has
\* length n + 1, its first n coordinates are the matched ones and the one
\* appended is the first coordinate.
C2_ClosedOnceOnly ==
    ppc = "returned" =>
        LET ms == Matches
            n  == Len(ms)
            matched == [i \in 1..n |-> ToCoord(ms[i])]
        IN  ms # <<>> =>
                IF CoordEq(matched[1], matched[n])
                THEN Ring = matched
                ELSE /\ Len(Ring) = n + 1
                     /\ SubSeq(Ring, 1, n) = matched
                     /\ Ring[n + 1] = matched[1]

\* C2 witness: a call whose first and last matched pairs are equal as numbers
\* although several pairs were matched has returned.
C2_Witness ==
    /\ ppc = "returned"
    /\ LET ms == Matches
       IN  Len(ms) >= 2 /\ CoordEq(ToCoord(ms[1]), ToCoord(ms[Len(ms)]))

\* longitude and latitude of one matched "<float> <float>" text, read off the
\* text on either side of its single space
SpaceAt(m) == CHOOSE k \in 1..Len(m) : m[k] = " "
LngOf(m) == PyFloat(SubSeq(m, 1, SpaceAt(m) - 1))
LatOf(m) == PyFloat(SubSeq(m, SpaceAt(m) + 1, Len(m)))

\* ring holds the pairs ms in their order, plus at most a closing coordinate
InOrderOf(ring, ms) ==
    /\ Len(ring) \in {Len(ms), Len(ms) + 1}
    /\ \A i \in 1..Len(ms) : ring[i] = <<LngOf(ms[i]), LatOf(ms[i])>>

\* C3 as stated: the ring holds, in textual order, the "<float> <float>"
\* pairs that appear in the input text, none dropped, reordered or repeated.
C3_OrderOfInputText ==
    ppc = "returned" =>
        LET ms == FindAll(wkt_str)
        IN  IF ms = <<>> THEN polygons = <<>>
            ELSE polygons # <<>> /\ InOrderOf(Ring, ms)

\* C3 as amended: the ring holds, in textual order, the "<float> <float>"
\* pairs that appear in the text left once every 'MULTIPOLYGON (((' and then
\* every ')))' has been removed from the input, longitude first, none
\* dropped, reordered or repeated other than the optional closing coordinate.
C3_OrderOfStrippedText ==
    ppc = "returned" =>
        LET ms == FindAll(StripMarkers(wkt_str))
        IN  IF ms = <<>> THEN polygons = <<>>
            ELSE polygons # <<>> /\ InOrderOf(Ring, ms)

\* C3 witness: a call has returned whose argument holds several distinct
\* pairs and a marker whose removal changes the pairs found.
C3_Witness ==
    /\ ppc = "returned"
    /\ LET ms == Matches
       IN  Len(ms) >= 2 /\ ms[1] # ms[2] /\ FindAll(wkt_str) # ms

(***************************************************************************)
(* Properties of the geometry expression (checked under SpecGeom).         *)
(***************************************************************************)
\* C6: the geometry is chosen from the extractor result: more than one
\* polygon gives type "MultiPolygon" with the full polygon sequence, exactly
\* one gives "Polygon" with that polygon's ring list, none gives "Polygon"
\* with the empty sequence.
C6_GeometryChoice ==
    gpc = "built" =>
        /\ Len(coordinates) > 1 =>
               geometry = [type |-> "MultiPolygon", coordinates |-> coordinates]
        /\ Len(coordinates) = 1 =>
               geometry = [type |-> "Polygon", coordinates |-> coordinates[1]]
        /\ Len(coordinates) = 0 =>
               geometry = [type |-> "Polygon", coordinates |-> <<>>]

\* C6 witness: the expression has been evaluated on several polygons.
C6_Witness == gpc = "built" /\ Len(coordinates) > 1 /\ geometry.type = "MultiPolygon"

(***************************************************************************)
(* Properties of the driver (checked under Spec).                          *)
(***************************************************************************)
\* float() accepts the field
IsNumeric(s) == PyFloat(s).kind \notin {"ValueError", "TypeError"}

\* the row makes the try block raise: no geometry text to parse, or a
\* SHAPE_Area or SHAPE_Leng that is missing or not numeric
RowRaises(r) ==
    r.the_geom = None \/ ~IsNumeric(r.SHAPE_Area) \/ ~IsNumeric(r.SHAPE_Leng)

RowOk(r) == ~RowRaises(r)

\* every row read so far has been through the try block
Processed == "WARD" \in header /\ "the_geom" \in header

IsErrorLine(l) == l.line = "Error processing ward"
ErrorLines == SelectSeq(printed, IsErrorLine)

\* the index in `features` of the feature of row i, a row that does not raise
FeatureIndex(i) == Cardinality({j \in 1..i : RowOk(rows[j])})

\* C4: once all rows have been processed, the number of features is the
\* number of rows minus the number of rows that raised a recoverable error
\* (one error line each); a row with a non-numeric SHAPE_Area or SHAPE_Leng is
\* one of them.
C4_FeatureCount ==
    exhausted =>
        LET failed  == {i \in DOMAIN rows : RowRaises(rows[i])}
            nonnum  == {i \in DOMAIN rows : \/ ~IsNumeric(rows[i].SHAPE_Area)
                                            \/ ~IsNumeric(rows[i].SHAPE_Leng)}
        IN  /\ Len(features) = Len(rows) - Cardinality(failed)
            /\ Len(ErrorLines) = Cardinality(failed)
            /\ nonnum \subseteq failed

\* C4 witness: a run has read two rows to the end, one of them with a
\* geometry text and a SHAPE_Leng that is not numeric.
C4_Witness ==
    /\ exhausted /\ Len(rows) = 2 /\ Len(features) = 1
    /\ \E i \in DOMAIN rows :
          rows[i].the_geom # None /\ IsNumeric(rows[i].SHAPE_Area)
          /\ ~IsNumeric(rows[i].SHAPE_Leng)

\* a step in which the loop body ran on a row that raises in the try block
FailingRowStep ==
    /\ pc = "loop" /\ Processed /\ rows' # rows
    /\ RowRaises(rows'[Len(rows')])

\* such a step leaves the features as they were, prints the ward and the
\* exception, and leaves the loop running
CaughtInLoop ==
    FailingRowStep =>
        /\ features' = features
        /\ Len(printed') = Len(printed) + 1
        /\ IsErrorLine(printed'[Len(printed')])
        /\ printed'[Len(printed')].ward = rows'[Len(rows')].WARD
        /\ pc' = "loop" /\ csvfile' = "open" /\ raised' = NoError

\* C5 as stated: an exception raised while building a row's Feature is caught
\* in the loop, and the only failure that aborts the run is failing to open
\* the input file (an error while reading it is counted with it).
C5_OnlyInputOpenAborts ==
    [][ /\ CaughtInLoop
        /\ pc' = "aborted" => raised' \in {OSError("input"), ReadError} ]_vars

\* C5 as amended: an exception raised inside the try block of a row is caught
\* in the loop; the run is aborted by failing to open the input file, by an
\* error while reading a row, by the KeyError of row['WARD'] or
\* row['the_geom'] when the header lacks the column, and by failing to open
\* the output file.
C5_CaughtInTryOnly ==
    [][ /\ CaughtInLoop
        /\ pc' = "aborted" =>
              raised' \in {OSError("input"), ReadError, KeyError("WARD"),
                           KeyError("the_geom"), OSError("output")} ]_vars

\* C5 witness: a row with no geometry text (AttributeError) was skipped and
\* the row after it gave a feature.
C5_Witness ==
    /\ Processed /\ Len(rows) = 2 /\ Len(features) = 1
    /\ "SHAPE_Area" \in header /\ rows[1].the_geom = None /\ RowOk(rows[2])

\* the index just past the longest run of separator characters that starts at i
RECURSIVE SeparatorEnd(_, _)
SeparatorEnd(s, i) ==
    IF i <= Len(s) /\ s[i] \in {",", " ", "(", ")"} THEN SeparatorEnd(s, i + 1) ELSE i

\* s[i..] is a list of "<float> <float>" pairs, each separated from the next
\* by commas, spaces and parentheses (ring and polygon boundaries included)
RECURSIVE IsPairList(_, _)
IsPairList(s, i) ==
    LET e == PairEnd(s, i)
    IN  /\ e # 0
        /\ \/ e = Len(s) + 1
           \/ SeparatorEnd(s, e) > e /\ IsPairList(s, SeparatorEnd(s, e))

\* "MULTIPOLYGON (((" ... ")))" around a list of decimal coordinate pairs
WellFormedWkt(g) ==
    /\ Len(g) > Len(PREFIX) + Len(SUFFIX)
    /\ StartsAt(g, 1, PREFIX)
    /\ StartsAt(g, Len(g) - Len(SUFFIX) + 1, SUFFIX)
    /\ IsPairList(SubSeq(g, Len(PREFIX) + 1, Len(g) - Len(SUFFIX)), 1)

\* row i is emitted as a Feature with an empty Polygon geometry
EmittedEmpty(i) ==
    /\ parse_multipolygon_wkt(rows[i].the_geom) = <<>>
    /\ FeatureIndex(i) <= Len(features)
    /\ features[FeatureIndex(i)].properties.ward = rows[i].WARD
    /\ features[FeatureIndex(i)].geometry = [type |-> "Polygon", coordinates |-> <<>>]

\* C7 as stated: a row (with numeric SHAPE_Area and SHAPE_Leng) whose the_geom
\* string is empty or not of the form "MULTIPOLYGON (((" pairs ")))" yields an
\* empty coordinate list and is emitted with type "Polygon", coordinates [].
C7_MalformedYieldsEmpty ==
    Processed =>
        \A i \in DOMAIN rows :
            (RowOk(rows[i]) /\ ~WellFormedWkt(rows[i].the_geom)) => EmittedEmpty(i)

\* C7 as amended: a row (with numeric SHAPE_Area and SHAPE_Leng) whose
\* the_geom string holds no "<float> <float>" pair once the markers are
\* removed, the empty string included, yields an empty coordinate list and is
\* emitted with type "Polygon", coordinates [].
C7_NoPairYieldsEmpty ==
    Processed =>
        \A i \in DOMAIN rows :
            (RowOk(rows[i]) /\ FindAll(StripMarkers(rows[i].the_geom)) = <<>>)
                => EmittedEmpty(i)

\* C7 witness: after a row that was skipped, a row with a non-empty geometry
\* text that holds no pair has been emitted.
C7_Witness ==
    /\ Processed /\ Len(rows) = 2 /\ Len(features) = 1
    /\ RowRaises(rows[1]) /\ rows[2].the_geom = GeomNoPairs

\* C8: the output path is opened and written at most once, only after every
\* row has been processed and the input file closed; a run that fails to open
\* the input file ends with the output neither opened nor overwritten.
C8_OutputOnceAtEnd ==
    /\ outOpens <= 1
    /\ outOpens = 1 =>
          /\ exhausted /\ csvfile = "closed"
          /\ Len(features) + Len(ErrorLines) = Len(rows)
    /\ outfile # PreviousContent => (outOpens = 1 /\ outfile = GeoJson(features))
    /\ raised = OSError("input") =>
          (pc = "aborted" /\ outOpens = 0 /\ outfile = PreviousContent)

\* C8 witness: a run over two rows has written its output.
C8_Witness == pc = "done" /\ outOpens = 1 /\ Len(rows) = 2 /\ Len(features) = 1

IsPrefix(s, u) == Len(s) <= Len(u) /\ SubSeq(u, 1, Len(s)) = s

\* the features are those of the rows that raise nothing, in row order
FeaturesFollowRows ==
    Processed =>
        LET ok == SelectSeq(rows, RowOk)
        IN  /\ Len(features) = Len(ok)
            /\ \A k \in DOMAIN ok :
                  /\ features[k].properties.ward = ok[k].WARD
                  /\ features[k].properties.ward_name =
                         <<"W", "a", "r", "d", " ">> \o ok[k].WARD
                  /\ features[k].properties.shape_area = PyFloat(ok[k].SHAPE_Area)
                  /\ features[k].properties.shape_len = PyFloat(ok[k].SHAPE_Leng)

\* C10: the features are exactly the rows that raised no error, in row order,
\* each with "ward" the row's WARD string and "ward_name" "Ward " followed by
\* it; a feature once appended is never removed, reordered or modified, and
\* what is written is that sequence.
C10_FeaturesInRowOrder ==
    /\ []FeaturesFollowRows
    /\ [][ /\ IsPrefix(features, features')
            /\ outfile' # outfile => outfile'.features = features ]_vars

\* C10 witness: two rows with different WARD strings have both been emitted
\* and written, a skipped row between them.
C10_Witness ==
    /\ pc = "done" /\ Len(rows) = 3 /\ Len(features) = 2
    /\ RowRaises(rows[2])
    /\ features[1].properties.ward # features[2].properties.ward

=============================================================================
